---- MODULE Spec2Model ----
(***************************************************************************)
(* ChatGPTx PopClip extension (src/main.ts, latest revision, lines         *)
(* 333-768): the action dispatcher doAction, the two action strategies     *)
(* ChatAction and OneTimeAction, the per-application chat histories with   *)
(* their idle expiry, the client configuration builder and the output      *)
(* placement.                                                              *)
(*                                                                         *)
(* Texts are sequences of tokens (one-character strings, or fixed pieces   *)
(* of a template), so that concatenation and trimming are computed.        *)
(* Time is the millisecond clock read by `new Date()`.                     *)
(***************************************************************************)
EXTENDS Integers, Sequences, FiniteSets, TLC

\* ------------------------------------------------------------------ bounds

\* How many times the clock is advanced in one behaviour.
MaxTicks == 2

\* A chat turn is only started while the histories hold fewer messages in
\* all.
MaxMessages == 3

\* The custom prompts hold at most this many lines.
MaxLines == 2

\* ------------------------------------------------------- program constants

InactiveChatHistoryResetIntervalMs == 20 * 1000 * 60

timeoutMs == 35000

AllowedOneTimeActions == {"revise", "polish", "translate", "summarize"}

AllowedActions == {"chat"} \cup AllowedOneTimeActions

\* Mutant: every action identity is registered with a ChatAction.
chatGPTActions_AllChat(action) == "ChatAction"

\* chatGPTActions: the strategy registered for each action identity.
chatGPTActions(action) ==
    IF action = "chat" THEN "ChatAction" ELSE "OneTimeAction"

\* ------------------------------------------------------------ input domains

\* Application identifiers of the host, and the display name of each.
AppIds ==
    {"com.apple.Terminal", "com.apple.TextEdit", "com.googlecode.iterm2"}

AppNameOf(appIdentifier) ==
    CASE appIdentifier = "com.apple.Terminal" -> "Terminal"
      [] appIdentifier = "com.googlecode.iterm2" -> "iTerm2"
      [] OTHER -> "TextEdit"

\* The applications the conversations are followed in.
ConversationApps == {"com.apple.Terminal", "com.apple.TextEdit"}

\* Selected texts handed to an action.
Texts == {<<"a">>, <<"b">>}

\* Selected texts handed to a one-shot action: the second starts and ends
\* with whitespace and holds a line break and a triple quotation mark.
OneShotTexts == {<<"a">>, <<" ", "a", "\n", "\"\"\"", " ">>}

Whitespace == {" ", "\n", "\t"}

\* The value of a property that is missing from a response.
Undefined == <<"undefined">>

\* PopClip: the context and the modifiers of one invocation.
PopClips ==
    { [appIdentifier |-> a, appName |-> AppNameOf(a), canPaste |-> cp,
       canCopy |-> cc, shift |-> sh, option |-> op] :
         a \in AppIds, cp \in BOOLEAN, cc \in BOOLEAN,
         sh \in BOOLEAN, op \in BOOLEAN }

\* An editor in which PopClip can paste and copy, no option key held.
EditorPopClips ==
    { p \in PopClips :
        /\ p.appIdentifier \in ConversationApps
        /\ p.canPaste /\ p.canCopy /\ ~p.option }

\* Base URLs, as token sequences: an origin, path segments, then the query.
OpenAIBase == <<"https://api.openai.com", "/v1">>

AzureBase ==
    <<"https://x.openai.azure.com", "/openai", "/deployments", "/d1",
      "/chat", "/completions", "?", "api-version", "=", "2023-05-15">>

NotAURL == <<"api.openai.com", "/v1">>

Origins == {"https://api.openai.com", "https://x.openai.azure.com"}

DefaultLanguages ==
    [primary |-> [revise |-> "English", polish |-> "English",
                  translate |-> "Chinese Simplified",
                  summarize |-> "Chinese Simplified"],
     secondary |-> [revise |-> "Chinese Simplified",
                    polish |-> "Chinese Simplified",
                    translate |-> "English", summarize |-> "English"]]

EnabledChoices ==
    { [a \in AllowedOneTimeActions |-> a \in {"revise", "summarize"}],
      [a \in AllowedOneTimeActions |-> a \in {"polish", "translate"}] }

MakeOptions(apiType, apiBase, enabled) ==
    [apiType |-> apiType, apiBase |-> apiBase, apiKey |-> "sk-key",
     apiVersion |-> "2023-03-15", model |-> "gpt-3.5-turbo",
     temperature |-> "1", enabled |-> enabled,
     primaryLanguage |-> DefaultLanguages.primary,
     secondaryLanguage |-> DefaultLanguages.secondary]

\* The settings an invocation may run with.
OptionsSet ==
    { MakeOptions(c[1], c[2], en) :
        c \in {<<"openai", OpenAIBase>>, <<"azure", AzureBase>>,
               <<"palm", OpenAIBase>>, <<"openai", NotAURL>>},
        en \in EnabledChoices }

\* Settings of the API, in every combination: the dialect tag, the base
\* URL (an origin, a path, a query) and the key.
ApiTypes == {"openai", "azure", "palm", ""}

PathPrefixes == {<<>>, <<"/v1">>, <<"/openai", "/deployments", "/d1">>}

ChatCompletions == <<"/chat", "/completions">>

ApiPaths ==
    PathPrefixes \cup { p \o ChatCompletions : p \in PathPrefixes }
    \cup { ChatCompletions \o <<"/v1">> }

ApiVersions == {"2023-05-15", "2024-02-01"}

\* Query parameters that stand before api-version.
QueryPrefixes == {<<>>, <<"x", "=", "1", "&">>}

ApiQueries ==
    {<<>>, <<"?", "x", "=", "1">>}
    \cup { <<"?">> \o q \o <<"api-version", "=", v>> :
             q \in QueryPrefixes, v \in ApiVersions }

ApiBases ==
    { <<o>> \o p \o q : o \in Origins, p \in ApiPaths, q \in ApiQueries }
    \cup {NotAURL}

ApiKeys == {"sk-key", "az-key"}

\* Languages that differ from one action to the other.
DistinctLanguages ==
    [primary |-> [revise |-> "English", polish |-> "French",
                  translate |-> "Chinese Simplified",
                  summarize |-> "German"],
     secondary |-> [revise |-> "Spanish", polish |-> "Japanese",
                    translate |-> "Korean", summarize |-> "Italian"]]

LanguageChoices == {DefaultLanguages, DistinctLanguages}

\* The settings of the API, every one-shot action being enabled.
ApiSettings ==
    { [MakeOptions(ty, base, [a \in AllowedOneTimeActions |-> TRUE])
         EXCEPT !.apiKey = key] :
        ty \in ApiTypes, base \in ApiBases, key \in ApiKeys }

\* The languages of the one-shot actions, with the default API settings.
LanguageSettings ==
    { [MakeOptions("openai", OpenAIBase,
                   [a \in AllowedOneTimeActions |-> TRUE])
         EXCEPT !.primaryLanguage = l.primary,
                !.secondaryLanguage = l.secondary] :
        l \in LanguageChoices }

SettingsSet == ApiSettings \cup LanguageSettings

\* A host that can paste and copy, in TextEdit, with or without shift.
SettingsPopClips ==
    { p \in PopClips :
        /\ p.appIdentifier = "com.apple.TextEdit"
        /\ p.canPaste /\ p.canCopy /\ ~p.option }

\* Lines of the custom prompts of the revision that has them (Options.prompts,
\* src/main.ts:48).  A token is one character or a piece of text that
\* holds neither a bracket nor a line break.
SingleCharacters == {"[", "]", " ", "x"}

PromptLines ==
    { <<"[", "translate", "]", "Translate to French">>,
      <<"[", "translate", "]", "Translate to German">>,
      <<"[", "revise", "]", "Fix", "]", "it">>,
      <<" ", "[", "polish", "]", "Polish it", " ">>,
      <<"x", "translate", "]", "Junk">>,
      <<"translate", "]", "No bracket">>,
      <<"[", "translate">>,
      <<"]", "translate", "]", "After a bracket">>,
      <<"note">>,
      <<>> }

RECURSIVE SeqsUpTo(_, _)
SeqsUpTo(S, n) ==
    IF n = 0 THEN {<<>>}
    ELSE LET shorter == SeqsUpTo(S, n - 1)
         IN  shorter \cup { Append(q, x) : q \in shorter, x \in S }

\* The lines, with a line break between one and the next.
RECURSIVE JoinLines(_)
JoinLines(lines) ==
    IF lines = <<>> THEN <<>>
    ELSE IF Len(lines) = 1 THEN lines[1]
    ELSE lines[1] \o <<"\n">> \o JoinLines(Tail(lines))

PromptLineSeqs == SeqsUpTo(PromptLines, MaxLines)

CustomPrompts == { JoinLines(lines) : lines \in PromptLineSeqs }

\* Reply messages of the backend.
ReplyContents == {<<" ", "r", " ">>}

\* Response bodies: well formed, without any choice, and with a first
\* choice whose message has no content.
Responses ==
    { [choices |-> <<[message |-> [role |-> "assistant", content |-> c]]>>] :
        c \in ReplyContents }
    \cup { [choices |-> <<>>],
           [choices |-> <<[message |-> [role |-> "assistant",
                                          content |-> Undefined]]>>] }

\* Response bodies in more kinds: whitespace about the content and inside
\* it, a content of whitespace only, a second choice, and the bodies that
\* are not well formed.
ReplyContentKinds ==
    { <<" ", " ", "hello", " ", " ">>,
      <<"\n", "h", " ", "i", "\t">>,
      <<"r">>,
      <<" ">> }

AssistantMessage(content) == [role |-> "assistant", content |-> content]

ResponseBodies ==
    Responses
    \cup { [choices |-> <<[message |-> AssistantMessage(c)]>>] :
             c \in ReplyContentKinds }
    \cup { [choices |-> <<[message |-> AssistantMessage(<<" ", "r", " ">>)],
                           [message |-> AssistantMessage(<<"other">>)]>>],
           [choices |-> <<[message |-> AssistantMessage(Undefined)],
                           [message |-> AssistantMessage(<<"other">>)]>>] }

\* Errors the POST is rejected with: no connection, a non-2xx status, and
\* the timeout of makeClientOptions.
RequestErrors ==
    { [name |-> "AxiosError", message |-> <<"Network Error">>],
      [name |-> "AxiosError",
       message |-> <<"Request failed with status code ", "500">>],
      [name |-> "AxiosError",
       message |-> <<"timeout of ", "35000", "ms exceeded">>] }

\* String(e): the string form of an error.
String(e) == <<e.name, ": ">> \o e.message

\* String.prototype.trim
RECURSIVE TrimStart(_)
TrimStart(s) ==
    IF s # <<>> /\ Head(s) \in Whitespace THEN TrimStart(Tail(s)) ELSE s

RECURSIVE TrimEnd(_)
TrimEnd(s) ==
    IF s # <<>> /\ s[Len(s)] \in Whitespace
    THEN TrimEnd(SubSeq(s, 1, Len(s) - 1))
    ELSE s

\* Mutant: the whitespace at the end is kept.
trim_StartOnly(s) == TrimStart(s)

trim(s) == TrimEnd(TrimStart(s))

\* -------------------------------------------------------------- ChatHistory

\* new ChatHistory(appIdentifier), constructed at time t.
ChatHistory_new(appIdentifier, t) ==
    [appIdentifier |-> appIdentifier, lastActiveAt |-> t, messages |-> <<>>]

\* Mutant: <= for <.
ChatHistory_isActive_Inclusive(chat, t) ==
    t - chat.lastActiveAt <= InactiveChatHistoryResetIntervalMs

\* Mutant: twice the reset interval.
ChatHistory_isActive_TwiceTheInterval(chat, t) ==
    t - chat.lastActiveAt < 2 * InactiveChatHistoryResetIntervalMs

ChatHistory_isActive(chat, t) ==
    t - chat.lastActiveAt < InactiveChatHistoryResetIntervalMs

\* Mutant: the push leaves the time of the last activity alone.
ChatHistory_push_KeepsLastActiveAt(chat, message, t) ==
    [chat EXCEPT !.messages = Append(chat.messages, message)]

ChatHistory_push(chat, message, t) ==
    [chat EXCEPT !.messages = Append(chat.messages, message),
                 !.lastActiveAt = t]

ChatHistory_pop(chat) ==
    [chat EXCEPT !.messages =
        IF chat.messages = <<>> THEN <<>>
        ELSE SubSeq(chat.messages, 1, Len(chat.messages) - 1)]

\* --------------------------------------------------------------- ChatAction
\* The map chatHistories is a function whose domain is its set of keys.

\* Map.delete
MapDelete(histories, appIdentifier) ==
    [a \in (DOMAIN histories) \ {appIdentifier} |-> histories[a]]

\* Map.set
MapSet(histories, appIdentifier, chat) ==
    [a \in (DOMAIN histories) \cup {appIdentifier} |->
        IF a = appIdentifier THEN chat ELSE histories[a]]

\* getChatHistory: the map after the get-or-create; the history returned
\* is its entry for appIdentifier.
ChatAction_getChatHistory(histories, appIdentifier, t) ==
    IF appIdentifier \in DOMAIN histories
    THEN histories
    ELSE MapSet(histories, appIdentifier, ChatHistory_new(appIdentifier, t))

\* Mutant: the test of isActive without its negation.
ChatAction_doCleanup_DeletesActive(histories, t) ==
    [a \in {b \in DOMAIN histories : ~ChatHistory_isActive(histories[b], t)}
        |-> histories[a]]

ChatAction_doCleanup(histories, t) ==
    [a \in {b \in DOMAIN histories : ChatHistory_isActive(histories[b], t)}
        |-> histories[a]]

ClearedText(popclip) ==
    <<popclip.appName, "(", popclip.appIdentifier, ")",
      "'s chat history has been cleared">>

\* Mutant: the clear request confirms without deleting the history.
ChatAction_beforeRequest_KeepsHistory(histories, popclip) ==
    IF popclip.shift
    THEN [allow |-> FALSE, reason |-> ClearedText(popclip),
          histories |-> histories]
    ELSE [allow |-> TRUE, reason |-> <<>>, histories |-> histories]

\* Mutant: the clear request empties the whole map.
ChatAction_beforeRequest_ClearsAll(histories, popclip) ==
    IF popclip.shift
    THEN [allow |-> FALSE, reason |-> ClearedText(popclip),
          histories |-> [a \in {} |-> histories[a]]]
    ELSE [allow |-> TRUE, reason |-> <<>>, histories |-> histories]

\* The guard returned, and the map the call leaves.  A reason of <<>> is
\* the absent reason.
ChatAction_beforeRequest(histories, popclip) ==
    IF popclip.shift
    THEN [allow |-> FALSE, reason |-> ClearedText(popclip),
          histories |-> MapDelete(histories, popclip.appIdentifier)]
    ELSE [allow |-> TRUE, reason |-> <<>>, histories |-> histories]

\* Mutant: the request carries the new message alone.
ChatAction_makeRequestData_LatestOnly(histories, popclip, text, options, action, t) ==
    IF action # "chat"
    THEN [isNull |-> TRUE, messages |-> <<>>, histories |-> histories]
    ELSE LET got == ChatAction_getChatHistory(histories,
                                              popclip.appIdentifier, t)
             chat == ChatHistory_push(got[popclip.appIdentifier],
                        [role |-> "user", content |-> text], t)
         IN  [isNull |-> FALSE,
              messages |-> <<[role |-> "user", content |-> text]>>,
              histories |-> MapSet(got, popclip.appIdentifier, chat)]

\* The request (isNull when the strategy returns null) and the map left.
ChatAction_makeRequestData(histories, popclip, text, options, action, t) ==
    IF action # "chat"
    THEN [isNull |-> TRUE, messages |-> <<>>, histories |-> histories]
    ELSE LET got == ChatAction_getChatHistory(histories,
                                              popclip.appIdentifier, t)
             chat == ChatHistory_push(got[popclip.appIdentifier],
                        [role |-> "user", content |-> text], t)
         IN  [isNull |-> FALSE, messages |-> chat.messages,
              histories |-> MapSet(got, popclip.appIdentifier, chat)]

\* Mutant: no pop.
ChatAction_onRequestError_NoPop(histories, popclip, t) ==
    ChatAction_getChatHistory(histories, popclip.appIdentifier, t)

ChatAction_onRequestError(histories, popclip, t) ==
    LET got == ChatAction_getChatHistory(histories, popclip.appIdentifier, t)
    IN  MapSet(got, popclip.appIdentifier,
               ChatHistory_pop(got[popclip.appIdentifier]))

TypeErrorOf(what) ==
    [name |-> "TypeError",
     message |-> <<"Cannot read properties of undefined (reading '", what,
                   "')">>]

\* processResponse: the text returned or the error thrown, and the map the
\* call leaves (the push comes before the content is read).
ChatAction_processResponse(histories, popclip, resp, t) ==
    IF resp.choices = <<>>
    THEN [threw |-> TRUE, error |-> TypeErrorOf("message"), result |-> <<>>,
          histories |-> ChatAction_getChatHistory(histories,
                                                  popclip.appIdentifier, t)]
    ELSE LET message == resp.choices[1].message
             got == ChatAction_getChatHistory(histories,
                                              popclip.appIdentifier, t)
             pushed == MapSet(got, popclip.appIdentifier,
                              ChatHistory_push(got[popclip.appIdentifier],
                                               message, t))
         IN  IF message.content = Undefined
             THEN [threw |-> TRUE, error |-> TypeErrorOf("trim"),
                   result |-> <<>>, histories |-> pushed]
             ELSE [threw |-> FALSE, error |-> TypeErrorOf("trim"),
                   result |-> trim(message.content), histories |-> pushed]

\* ------------------------------------------------------------ OneTimeAction

OneTimeAction_getPrompt(action, language) ==
    CASE action = "revise" ->
           <<"Please revise the text for improved clarity, brevity, and coherence. List the changes made and provide a brief explanation for each (IMPORTANT: reply with ",
             language, " language).">>
      [] action = "polish" ->
           <<"Please correct any grammatical errors and enhance the text while maintaining the original intent and tone as closely as possible (IMPORTANT: reply with ",
             language, " language).">>
      [] action = "translate" ->
           <<"Please translate the text into ", language,
             " and only provide me with the translated content without formating.">>
      [] action = "summarize" ->
           <<"Please provide a concise summary of the text, ensuring that all significant points are included (IMPORTANT: reply with ",
             language, " language).">>

\* options[`${action}Enabled`]: undefined, so falsy, for an action identity
\* that has no enable flag.
EnabledFlag(options, action) ==
    IF action \in DOMAIN options.enabled THEN options.enabled[action]
    ELSE FALSE

\* Mutant: the enable flag is not read.
OneTimeAction_beforeRequest_AlwaysAllows(histories, options, action) ==
    [allow |-> TRUE, reason |-> <<>>, histories |-> histories]

OneTimeAction_beforeRequest(histories, options, action) ==
    [allow |-> EnabledFlag(options, action), reason |-> <<>>,
     histories |-> histories]

InputIntroduction ==
    "The input text being used for this task is enclosed within triple quotation marks below the next line:"

TripleQuote == "\"\"\""

\* Mutant: the shift key is not read.
OneTimeAction_makeRequestData_PrimaryOnly(histories, popclip, text, options, action) ==
    IF action = "chat"
    THEN [isNull |-> TRUE, messages |-> <<>>, histories |-> histories]
    ELSE LET prompt == OneTimeAction_getPrompt(action,
                          options.primaryLanguage[action])
         IN  [isNull |-> FALSE,
              messages |->
                <<[role |-> "user",
                   content |-> prompt
                               \o <<"\n", InputIntroduction, "\n", "\n",
                                    TripleQuote>>
                               \o text \o <<TripleQuote>>]>>,
              histories |-> histories]

\* Mutant: the input text is trimmed.
OneTimeAction_makeRequestData_TrimsInput(histories, popclip, text, options, action) ==
    IF action = "chat"
    THEN [isNull |-> TRUE, messages |-> <<>>, histories |-> histories]
    ELSE LET language == IF popclip.shift
                         THEN options.secondaryLanguage[action]
                         ELSE options.primaryLanguage[action]
             prompt == OneTimeAction_getPrompt(action, language)
         IN  [isNull |-> FALSE,
              messages |->
                <<[role |-> "user",
                   content |-> prompt
                               \o <<"\n", InputIntroduction, "\n", "\n",
                                    TripleQuote>>
                               \o trim(text) \o <<TripleQuote>>]>>,
              histories |-> histories]

OneTimeAction_makeRequestData(histories, popclip, text, options, action) ==
    IF action = "chat"
    THEN [isNull |-> TRUE, messages |-> <<>>, histories |-> histories]
    ELSE LET language == IF popclip.shift
                         THEN options.secondaryLanguage[action]
                         ELSE options.primaryLanguage[action]
             prompt == OneTimeAction_getPrompt(action, language)
         IN  [isNull |-> FALSE,
              messages |->
                <<[role |-> "user",
                   content |-> prompt
                               \o <<"\n", InputIntroduction, "\n", "\n",
                                    TripleQuote>>
                               \o text \o <<TripleQuote>>]>>,
              histories |-> histories]

\* ChatGPTAction.processResponse, which OneTimeAction inherits.
ChatGPTAction_processResponse(histories, resp) ==
    IF resp.choices = <<>>
    THEN [threw |-> TRUE, error |-> TypeErrorOf("message"), result |-> <<>>,
          histories |-> histories]
    ELSE IF resp.choices[1].message.content = Undefined
    THEN [threw |-> TRUE, error |-> TypeErrorOf("trim"), result |-> <<>>,
          histories |-> histories]
    ELSE [threw |-> FALSE, error |-> TypeErrorOf("trim"),
          result |-> trim(resp.choices[1].message.content),
          histories |-> histories]

\* ----------------------------- OneTimeAction of the revision with custom prompts
\* (src/main.ts:187-204)

\* String.prototype.split, for a separator of one token.
RECURSIVE split(_, _)
split(s, separator) ==
    LET at == { k \in 1..Len(s) : s[k] = separator }
    IN  IF at = {} THEN <<s>>
        ELSE LET k == CHOOSE n \in at : \A m \in at : n <= m
             IN  <<SubSeq(s, 1, k - 1)>>
                 \o split(SubSeq(s, k + 1, Len(s)), separator)

\* Mutant: the parts are put together without the separator.
RECURSIVE join_WithoutSeparator(_, _)
join_WithoutSeparator(parts, separator) ==
    IF parts = <<>> THEN <<>>
    ELSE parts[1] \o join_WithoutSeparator(Tail(parts), separator)

\* Array.prototype.join
RECURSIVE join(_, _)
join(parts, separator) ==
    IF parts = <<>> THEN <<>>
    ELSE IF Len(parts) = 1 THEN parts[1]
    ELSE parts[1] \o <<separator>> \o join(Tail(parts), separator)

\* What is left of a piece of text without its first character.
WithoutFirstCharacter(token) ==
    CASE token = "translate" -> "ranslate"
      [] token = "revise" -> "evise"
      [] token = "polish" -> "olish"
      [] token = "summarize" -> "ummarize"
      [] token = "note" -> "ote"
      [] OTHER -> "..."

\* String.prototype.substring(1)
substring1(s) ==
    IF s = <<>> THEN <<>>
    ELSE IF Head(s) \in SingleCharacters THEN Tail(s)
    ELSE <<WithoutFirstCharacter(Head(s))>> \o Tail(s)

\* Mutant: every action has the default prompt of translate.
defaultPrompts_AllTranslate(action) ==
    <<"Please translate the text into Chinese and only provide me with the translated content without formating.">>

\* OneTimeAction.defaultPrompts.get(action)
defaultPrompts(action) ==
    CASE action = "revise" ->
           <<"Please revise the text to make it clearer, more concise, and more coherent, and please list the changes and briefly explain why (NOTE: do not translate the content).">>
      [] action = "polish" ->
           <<"Please correct the grammar and polish the text while adhering as closely as possible to the original intent (NOTE: do not translate the content).">>
      [] action = "translate" ->
           <<"Please translate the text into Chinese and only provide me with the translated content without formating.">>
      [] OTHER -> Undefined

\* The loop of getPrompt over the lines, from line i on.
RECURSIVE getPrompt_from(_, _, _)
getPrompt_from(action, prompts, i) ==
    IF i > Len(prompts) THEN defaultPrompts(action)
    ELSE LET parts == split(trim(prompts[i]), "]")
         IN  IF substring1(parts[1]) = <<action>>
             THEN join(Tail(parts), "]")
             ELSE getPrompt_from(action, prompts, i + 1)

\* Mutant: the custom prompts are not read.
getPrompt_IgnoresCustomPrompts(action, customPrompts) ==
    defaultPrompts(action)

getPrompt(action, customPrompts) ==
    IF customPrompts # <<>>
    THEN getPrompt_from(action, split(customPrompts, "\n"), 1)
    ELSE defaultPrompts(action)

\* ------------------------------------------- dispatch over the two strategies

beforeRequest(impl, histories, popclip, options, action) ==
    IF impl = "ChatAction"
    THEN ChatAction_beforeRequest(histories, popclip)
    ELSE OneTimeAction_beforeRequest(histories, options, action)

makeRequestData(impl, histories, popclip, text, options, action, t) ==
    IF impl = "ChatAction"
    THEN ChatAction_makeRequestData(histories, popclip, text, options,
                                    action, t)
    ELSE OneTimeAction_makeRequestData(histories, popclip, text, options,
                                       action)

processResponse(impl, histories, popclip, resp, t) ==
    IF impl = "ChatAction"
    THEN ChatAction_processResponse(histories, popclip, resp, t)
    ELSE ChatGPTAction_processResponse(histories, resp)

\* Mutant: the one-shot strategy pops the history as well.
onRequestError_AlwaysPops(impl, histories, popclip, t) ==
    ChatAction_onRequestError(histories, popclip, t)

onRequestError(impl, histories, popclip, t) ==
    IF impl = "ChatAction"
    THEN ChatAction_onRequestError(histories, popclip, t)
    ELSE histories

\* Mutant: no strategy is swept.
doCleanup_Skipped(histories, t) == histories

\* doCleanup: every registered strategy's doCleanup; only the one
\* ChatAction instance holds state.
doCleanup(histories, t) == ChatAction_doCleanup(histories, t)

\* -------------------------------------------------------- makeClientOptions

Null == "null"

\* Index of the first "?" of a URL, or Len + 1.
RECURSIVE QueryStart(_, _)
QueryStart(url, i) ==
    IF i > Len(url) \/ url[i] = "?" THEN i ELSE QueryStart(url, i + 1)

\* Mutant: a URL without a path has the empty path.
URL_new_EmptyPath(apiBase) ==
    IF apiBase = <<>> \/ apiBase[1] \notin Origins
    THEN [threw |-> TRUE, origin |-> Null, pathname |-> <<>>,
          search |-> <<>>]
    ELSE LET q == QueryStart(apiBase, 2)
         IN  [threw |-> FALSE, origin |-> apiBase[1],
              pathname |-> SubSeq(apiBase, 2, q - 1),
              search |-> SubSeq(apiBase, q + 1, Len(apiBase))]

\* new URL(apiBase): throws unless the text starts with an origin.
URL_new(apiBase) ==
    IF apiBase = <<>> \/ apiBase[1] \notin Origins
    THEN [threw |-> TRUE, origin |-> Null, pathname |-> <<>>,
          search |-> <<>>]
    ELSE LET q == QueryStart(apiBase, 2)
             path == SubSeq(apiBase, 2, q - 1)
         IN  [threw |-> FALSE, origin |-> apiBase[1],
              pathname |-> IF path = <<>> THEN <<"/">> ELSE path,
              search |-> SubSeq(apiBase, q + 1, Len(apiBase))]

\* Mutant: only the first parameter of the query is looked at.
SearchParams_get_FirstOnly(search, key) ==
    IF Len(search) >= 3 /\ search[1] = key /\ search[2] = "="
    THEN search[3]
    ELSE Null

\* URLSearchParams.get: the first value of the key, or null.  The query
\* is key, "=", value, with "&" between the pairs.
RECURSIVE SearchParams_get(_, _)
SearchParams_get(search, key) ==
    IF Len(search) < 3 THEN Null
    ELSE IF search[1] = key /\ search[2] = "=" THEN search[3]
    ELSE SearchParams_get(SubSeq(search, 5, Len(search)), key)

\* Mutant: the suffix is left in place.
TrimChatCompletions_Keeps(pathname) == pathname

\* pathname.replace(/\/chat\/completions$/, "")
TrimChatCompletions(pathname) ==
    LET n == Len(pathname)
    IN  IF n >= 2 /\ pathname[n - 1] = "/chat" /\ pathname[n] = "/completions"
        THEN SubSeq(pathname, 1, n - 2)
        ELSE pathname

InvalidURLError == [name |-> "TypeError", message |-> <<"Invalid URL">>]

UnsupportedError(apiType) ==
    [name |-> "Error", message |-> <<"unsupported api type: ", apiType>>]

NoClient ==
    [baseURL |-> <<>>, headers |-> <<>>, params |-> <<>>, timeout |-> 0]

\* Mutant: a dialect tag that is not azure is taken for openai.
makeClientOptions_UnknownIsOpenAI(options) ==
    LET url == URL_new(options.apiBase)
    IN  IF url.threw
        THEN [threw |-> TRUE, error |-> InvalidURLError, client |-> NoClient]
        ELSE LET apiVersion == SearchParams_get(url.search, "api-version")
                 baseURL == <<url.origin>> \o TrimChatCompletions(url.pathname)
             IN  IF options.apiType = "azure"
                 THEN [threw |-> FALSE, error |-> InvalidURLError,
                       client |->
                         [baseURL |-> baseURL,
                          headers |-> <<"api-key", options.apiKey>>,
                          params |-> <<"api-version", apiVersion>>,
                          timeout |-> timeoutMs]]
                 ELSE [threw |-> FALSE, error |-> InvalidURLError,
                       client |->
                         [baseURL |-> baseURL,
                          headers |-> <<"Authorization", "Bearer ",
                                        options.apiKey>>,
                          params |-> <<>>, timeout |-> timeoutMs]]

makeClientOptions(options) ==
    LET url == URL_new(options.apiBase)
    IN  IF url.threw
        THEN [threw |-> TRUE, error |-> InvalidURLError, client |-> NoClient]
        ELSE LET apiVersion == SearchParams_get(url.search, "api-version")
                 baseURL == <<url.origin>> \o TrimChatCompletions(url.pathname)
             IN  IF options.apiType = "openai"
                 THEN [threw |-> FALSE, error |-> InvalidURLError,
                       client |->
                         [baseURL |-> baseURL,
                          headers |-> <<"Authorization", "Bearer ",
                                        options.apiKey>>,
                          params |-> <<>>, timeout |-> timeoutMs]]
                 ELSE IF options.apiType = "azure"
                 THEN [threw |-> FALSE, error |-> InvalidURLError,
                       client |->
                         [baseURL |-> baseURL,
                          headers |-> <<"api-key", options.apiKey>>,
                          params |-> <<"api-version", apiVersion>>,
                          timeout |-> timeoutMs]]
                 ELSE [threw |-> TRUE,
                       error |-> UnsupportedError(options.apiType),
                       client |-> NoClient]

\* Mutant: iTerm2 is not taken for a terminal.
isTerminalApplication_WithoutITerm2(appName) == appName = "Terminal"

isTerminalApplication(appName) == appName = "iTerm2" \/ appName = "Terminal"

\* ------------------------------------------------------------ calls to host

HostCall(op, text, opts) == [op |-> op, text |-> text, opts |-> opts]

\* Mutant: canPaste is not read.
PlaceResult_IgnoresCanPaste(popclip, text, result) ==
    IF ~popclip.option
    THEN <<HostCall("pasteText", <<"\n", "\n">> \o result \o <<"\n">>,
                    {"restore"}),
           HostCall("showSuccess", <<>>, {})>>
    ELSE <<HostCall("copyText", result, {"notify"}),
           HostCall("showText", result, {"compact", "preview"})>>

\* Mutant: the pasted text does not end with a newline.
PlaceResult_NoTrailingNewline(popclip, text, result) ==
    IF ~popclip.option /\ popclip.canPaste
    THEN LET toBePasted ==
               IF ~isTerminalApplication(popclip.appName) /\ popclip.canCopy
               THEN text \o <<"\n", "\n">> \o result
               ELSE <<"\n", "\n">> \o result
         IN  <<HostCall("pasteText", toBePasted, {"restore"}),
               HostCall("showSuccess", <<>>, {})>>
    ELSE <<HostCall("copyText", result, {"notify"}),
           HostCall("showText", result, {"compact", "preview"})>>

\* Mutant: the option key is not read.
PlaceResult_IgnoresOption(popclip, text, result) ==
    IF popclip.canPaste
    THEN LET toBePasted ==
               IF ~isTerminalApplication(popclip.appName) /\ popclip.canCopy
               THEN text \o <<"\n", "\n">> \o result \o <<"\n">>
               ELSE <<"\n", "\n">> \o result \o <<"\n">>
         IN  <<HostCall("pasteText", toBePasted, {"restore"}),
               HostCall("showSuccess", <<>>, {})>>
    ELSE <<HostCall("copyText", result, {"notify"}),
           HostCall("showText", result, {"compact", "preview"})>>

\* The host calls of the output placement of doAction.
PlaceResult(popclip, text, result) ==
    IF ~popclip.option /\ popclip.canPaste
    THEN LET toBePasted ==
               IF ~isTerminalApplication(popclip.appName) /\ popclip.canCopy
               THEN text \o <<"\n", "\n">> \o result \o <<"\n">>
               ELSE <<"\n", "\n">> \o result \o <<"\n">>
         IN  <<HostCall("pasteText", toBePasted, {"restore"}),
               HostCall("showSuccess", <<>>, {})>>
    ELSE <<HostCall("copyText", result, {"notify"}),
           HostCall("showText", result, {"compact", "preview"})>>

\* Mutant: showFailure is called before the error is shown.
ShowError_WithShowFailure(e) ==
    <<HostCall("showFailure", <<>>, {}),
      HostCall("showText", String(e), {})>>

\* The host calls of the catch clause of doAction.
ShowError(e) == <<HostCall("showText", String(e), {})>>

\* The host calls when the guard refuses.
ShowRefusal(guard) ==
    IF guard.reason # <<>>
    THEN <<HostCall("showText", guard.reason, {}),
           HostCall("showSuccess", <<>>, {})>>
    ELSE <<>>

\* -------------------------------------------------------------------- state

VARIABLES
    now,            \* the clock, in milliseconds
    ticks,          \* how many times the clock was advanced
    chatHistories,  \* ChatAction.chatHistories: appIdentifier -> ChatHistory
    inv,            \* the invocations of doAction, by slot
    ledger,         \* per application: what the turns so far should add up to
    probe           \* the settings and the response of the last invocation,
                    \* in the specifications that follow them

vars == <<now, ticks, chatHistories, inv, ledger, probe>>

\* Slots for invocations of doAction; a slot is reused once its invocation
\* has returned.
InvIds == {1, 2}

\* The messages stored for an application; none when it has no history.
MessagesOf(histories, appIdentifier) ==
    IF appIdentifier \in DOMAIN histories
    THEN histories[appIdentifier].messages
    ELSE <<>>

RECURSIVE SumOfLengths(_, _)
SumOfLengths(histories, apps) ==
    IF apps = {} THEN 0
    ELSE LET a == CHOOSE x \in apps : TRUE
         IN  Len(histories[a].messages) + SumOfLengths(histories, apps \ {a})

TotalMessages(histories) == SumOfLengths(histories, DOMAIN histories)

NoHistory == [present |-> FALSE, lastActiveAt |-> 0, messages |-> <<>>]

\* What the map holds for an application, as a value that is always defined.
EntryOf(histories, appIdentifier) ==
    IF appIdentifier \in DOMAIN histories
    THEN [present |-> TRUE,
          lastActiveAt |-> histories[appIdentifier].lastActiveAt,
          messages |-> histories[appIdentifier].messages]
    ELSE NoHistory

NoError == [name |-> "", message |-> <<>>]

\* An invocation: pc is "idle" (the slot is free), "awaiting" (at the await
\* of the POST) or "done" (doAction is at its end); outcome is how it
\* ended: "refused", "threw" (before the try), "placed", "failed" (the
\* catch clause).  before is the application's entry when doAction was
\* called, at is that time, swept are the keys its doCleanup deleted.
IdleInvocation ==
    [pc |-> "idle", outcome |-> "", action |-> "chat",
     popclip |-> CHOOSE p \in PopClips : TRUE, text |-> <<>>,
     enabled |-> FALSE, at |-> 0, before |-> NoHistory,
     swept |-> {}, allow |-> FALSE, built |-> FALSE,
     requestIsNull |-> FALSE, posts |-> 0,
     submitted |-> <<>>, host |-> <<>>, error |-> NoError, result |-> <<>>]

\* ------------------------------------------------------------------- ledger
\* What the conversation of each application should hold, kept apart from
\* chatHistories.  last is the latest event of the conversation: "none",
\* "expired" (nothing was appended for the reset interval), "cleared" (a
\* clear request), "success" or "failed" (a chat turn).  turns is the user
\* message and the reply of every turn since the conversation started, as
\* long as all of them succeeded.  appendedAt is the time of the last
\* append of the conversation (-1: none).

EmptyLedger == [last |-> "none", turns |-> <<>>, appendedAt |-> -1]

LedgerSet(led, appIdentifier, entry) ==
    [led EXCEPT ![appIdentifier] = entry]

LedgerEnded(entry, why) ==
    [last |-> why, turns |-> <<>>, appendedAt |-> -1]

\* At a call at time t: the conversations that nothing was appended to for
\* the reset interval are over.
LedgerExpire(led, t) ==
    [a \in AppIds |->
        IF /\ led[a].last \in {"success", "failed"}
           /\ t - led[a].appendedAt >= InactiveChatHistoryResetIntervalMs
        THEN LedgerEnded(led[a], "expired")
        ELSE led[a]]

LedgerCleared(led, appIdentifier) ==
    LedgerSet(led, appIdentifier, LedgerEnded(led[appIdentifier], "cleared"))

LedgerAppended(led, appIdentifier, t) ==
    LedgerSet(led, appIdentifier, [led[appIdentifier] EXCEPT !.appendedAt = t])

LedgerAfterTurn(led, appIdentifier, text, ok, reply) ==
    IF ok /\ led[appIdentifier].last # "failed"
    THEN LedgerSet(led, appIdentifier,
            [led[appIdentifier] EXCEPT
                !.last = "success",
                !.turns = @ \o <<[role |-> "user", content |-> text], reply>>])
    ELSE LedgerSet(led, appIdentifier,
            [led[appIdentifier] EXCEPT !.last = "failed", !.turns = <<>>])

NoResponse == [choices |-> <<>>]

\* What a specification that follows the settings and the responses has
\* seen of the last invocation: the options doAction was called with and
\* what makeClientOptions made of them, and the response the POST resolved
\* with.  For getPrompt of the revision with custom prompts: its
\* arguments and, once it was called, the prompt it returned.
NoProbe ==
    [called |-> FALSE,
     options |-> MakeOptions("", <<>>,
                             [a \in AllowedOneTimeActions |-> FALSE]),
     made |-> [threw |-> FALSE, error |-> NoError, client |-> NoClient],
     responded |-> FALSE, response |-> NoResponse,
     prompted |-> FALSE, action |-> "", customPrompts |-> <<>>,
     prompt |-> <<>>]

Init ==
    /\ now = 0
    /\ ticks = 0
    /\ chatHistories = [a \in {} |-> NoHistory]
    /\ inv = [i \in InvIds |-> IdleInvocation]
    /\ ledger = [a \in AppIds |-> EmptyLedger]
    /\ probe = NoProbe

\* ------------------------------------------------------------------ actions

Free(i) == inv[i].pc = "idle"

\* doAction, from the call to the await of the POST (or to its return, when
\* the guard refuses, or to the throw of makeClientOptions).
doAction_call(i, popclip, text, options, action) ==
    /\ Free(i)
    /\ \A j \in InvIds : j < i => ~Free(j)
    /\ (action = "chat" /\ ~popclip.shift) =>
          TotalMessages(chatHistories) < MaxMessages
    /\ LET app == popclip.appIdentifier
           swept == doCleanup(chatHistories, now)
           actionImpl == chatGPTActions(action)
           guard == beforeRequest(actionImpl, swept, popclip, options, action)
           requestData == makeRequestData(actionImpl, guard.histories, popclip,
                                          text, options, action, now)
           client == makeClientOptions(options)
           called == [IdleInvocation EXCEPT
                        !.action = action, !.popclip = popclip,
                        !.text = text,
                        !.enabled = EnabledFlag(options, action),
                        !.at = now,
                        !.before = EntryOf(chatHistories, app),
                        !.swept = (DOMAIN chatHistories) \ (DOMAIN swept),
                        !.allow = guard.allow]
           led1 == LedgerExpire(ledger, now)
           led2 == IF action = "chat"
                   THEN LedgerAppended(led1, app, now)
                   ELSE led1
       IN  IF ~guard.allow
           THEN /\ chatHistories' = guard.histories
                /\ inv' = [inv EXCEPT ![i] =
                             [called EXCEPT !.pc = "done",
                                            !.outcome = "refused",
                                            !.host = ShowRefusal(guard)]]
                /\ ledger' = IF action = "chat"
                             THEN LedgerCleared(led1, app)
                             ELSE led1
           ELSE IF client.threw
           THEN /\ chatHistories' = requestData.histories
                /\ inv' = [inv EXCEPT ![i] =
                             [called EXCEPT !.pc = "done",
                                            !.outcome = "threw",
                                            !.built = TRUE,
                                            !.requestIsNull = requestData.isNull,
                                            !.error = client.error]]
                /\ ledger' = IF action = "chat"
                             THEN LedgerAfterTurn(led2, app, text, FALSE,
                                                  NoError)
                             ELSE led1
           ELSE /\ chatHistories' = requestData.histories
                /\ inv' = [inv EXCEPT ![i] =
                             [called EXCEPT !.pc = "awaiting",
                                            !.built = TRUE,
                                            !.requestIsNull = requestData.isNull,
                                            !.posts = 1,
                                            !.submitted = requestData.messages]]
                /\ ledger' = led2
    /\ UNCHANGED <<now, ticks>>

\* Mutant: a resolved POST is issued again and the await goes on.
doAction_resolved_PostsAgain(i, resp) ==
    /\ inv[i].pc = "awaiting"
    /\ inv' = [inv EXCEPT ![i].posts = IF @ = 1 THEN 2 ELSE 1]
    /\ UNCHANGED <<now, ticks, chatHistories, ledger>>

\* doAction after the await, the POST having resolved with resp.
doAction_resolved(i, resp) ==
    /\ inv[i].pc = "awaiting"
    /\ LET cur == inv[i]
           actionImpl == chatGPTActions(cur.action)
           r == processResponse(actionImpl, chatHistories, cur.popclip, resp,
                                now)
           led == IF cur.action = "chat" /\ resp.choices # <<>>
                  THEN LedgerAppended(ledger, cur.popclip.appIdentifier, now)
                  ELSE ledger
       IN  IF r.threw
           THEN /\ chatHistories' = onRequestError(actionImpl, r.histories,
                                                   cur.popclip, now)
                /\ inv' = [inv EXCEPT ![i] =
                             [cur EXCEPT !.pc = "done", !.outcome = "failed",
                                         !.error = r.error,
                                         !.host = ShowError(r.error)]]
                /\ ledger' = IF cur.action = "chat"
                             THEN LedgerAfterTurn(led,
                                    cur.popclip.appIdentifier, cur.text,
                                    FALSE, NoError)
                             ELSE ledger
           ELSE /\ chatHistories' = r.histories
                /\ inv' = [inv EXCEPT ![i] =
                             [cur EXCEPT !.pc = "done", !.outcome = "placed",
                                         !.result = r.result,
                                         !.host = PlaceResult(cur.popclip,
                                                     cur.text, r.result)]]
                /\ ledger' = IF cur.action = "chat"
                             THEN LedgerAfterTurn(led,
                                    cur.popclip.appIdentifier, cur.text,
                                    TRUE, resp.choices[1].message)
                             ELSE ledger
    /\ UNCHANGED <<now, ticks>>

\* Mutant: a rejected POST is issued once more.
doAction_rejected_Retries(i, e) ==
    /\ inv[i].pc = "awaiting"
    /\ inv[i].posts < 2
    /\ inv' = [inv EXCEPT ![i].posts = @ + 1]
    /\ UNCHANGED <<now, ticks, chatHistories, ledger>>

\* doAction after the await, the POST having rejected with e.
doAction_rejected(i, e) ==
    /\ inv[i].pc = "awaiting"
    /\ LET cur == inv[i]
           actionImpl == chatGPTActions(cur.action)
       IN  /\ chatHistories' = onRequestError(actionImpl, chatHistories,
                                              cur.popclip, now)
           /\ inv' = [inv EXCEPT ![i] =
                        [cur EXCEPT !.pc = "done", !.outcome = "failed",
                                    !.error = e, !.host = ShowError(e)]]
           /\ ledger' = IF cur.action = "chat"
                        THEN LedgerAfterTurn(ledger,
                               cur.popclip.appIdentifier, cur.text, FALSE,
                               NoError)
                        ELSE ledger
    /\ UNCHANGED <<now, ticks>>

\* The promise of doAction settles and the invocation is gone.
doAction_return(i) ==
    /\ inv[i].pc = "done"
    /\ inv' = [inv EXCEPT ![i] = IdleInvocation]
    /\ UNCHANGED <<now, ticks, chatHistories, ledger>>

\* Time passes.
TickSteps == {1, InactiveChatHistoryResetIntervalMs - 1}

Tick(d) ==
    /\ ticks < MaxTicks
    /\ now' = now + d
    /\ ticks' = ticks + 1
    /\ UNCHANGED <<chatHistories, inv, ledger, probe>>

\* The host runs one invocation after another: doAction is called only
\* when no other invocation is running.
NoneRunning == \A j \in InvIds : Free(j)

\* The chat action, in either application, from an editor.
Call ==
    /\ NoneRunning
    /\ \E i \in InvIds, popclip \in EditorPopClips, text \in Texts,
          options \in OptionsSet :
          doAction_call(i, popclip, text, options, "chat")
    /\ UNCHANGED probe

\* Every action, with every capability of the host and every modifier;
\* the chat action in the applications the conversations are followed in.
CallAny ==
    /\ NoneRunning
    /\ \E i \in InvIds, popclip \in PopClips, options \in OptionsSet,
          action \in AllowedActions :
          /\ action = "chat" => popclip.appIdentifier \in ConversationApps
          /\ doAction_call(i, popclip, <<"a">>, options, action)
    /\ UNCHANGED probe

Resolved ==
    /\ \E i \in InvIds, resp \in Responses : doAction_resolved(i, resp)
    /\ UNCHANGED probe

Rejected ==
    /\ \E i \in InvIds, e \in RequestErrors : doAction_rejected(i, e)
    /\ UNCHANGED probe

Return ==
    /\ \E i \in InvIds : doAction_return(i)
    /\ UNCHANGED probe

Clock == \E d \in TickSteps : Tick(d)

Next == Call \/ Resolved \/ Rejected \/ Return \/ Clock

\* The conversations: chat turns and clear requests of two applications,
\* as time passes.
Spec == Init /\ [][Next]_vars

DispatchNext == CallAny \/ Resolved \/ Rejected \/ Return

\* The dispatcher: every action identity, host capability and modifier.
DispatchSpec == Init /\ [][DispatchNext]_vars

\* The chat action and two one-shot actions, one with a prompt that ends
\* with the language and one with the language inside it.
TimedActions == {"chat", "revise", "translate"}

\* Chat turns, clear requests and one-shot dispatches in the applications
\* the conversations are followed in, as time passes, with the default
\* settings of the API.
TimedCall ==
    /\ NoneRunning
    /\ \E i \in InvIds, popclip \in EditorPopClips,
          enabled \in EnabledChoices, action \in TimedActions,
          text \in OneShotTexts :
          /\ action = "chat" => text = <<"a">>
          /\ doAction_call(i, popclip, text,
                           MakeOptions("openai", OpenAIBase, enabled), action)
    /\ UNCHANGED probe

TimedNext == TimedCall \/ Resolved \/ Rejected \/ Return \/ Clock

\* Conversations and one-shot dispatches, as time passes.
TimedSpec == Init /\ [][TimedNext]_vars

\* The dispatcher with a POST that settles: the timeout of
\* makeClientOptions rejects a POST that got no response, so an invocation
\* at its await is resumed, by a response or by an error.
LiveSpec ==
    Init /\ [][DispatchNext]_vars /\ WF_vars(Resolved \/ Rejected)

\* The invocations that overlap come from one editor, with or without the
\* shift key.
OverlapPopClips ==
    { p \in EditorPopClips : p.appIdentifier = "com.apple.TextEdit" }

\* doAction is called while another invocation is at its await: the host
\* does not wait for the promise of one invocation before it runs the
\* next.  What follows an await runs to the end of doAction in one turn
\* of the event loop, so no call comes between the end of an invocation
\* and the settling of its promise.
OverlapCall ==
    /\ \A j \in InvIds : inv[j].pc # "done"
    /\ \E i \in InvIds, popclip \in OverlapPopClips, text \in Texts :
          doAction_call(i, popclip, text,
                        MakeOptions("openai", OpenAIBase,
                                    [a \in AllowedOneTimeActions |-> TRUE]),
                        "chat")
    /\ UNCHANGED probe

OverlapNext == OverlapCall \/ Resolved \/ Rejected \/ Return

\* Chat turns and clear requests of one application that overlap, with
\* the default settings of the API.
OverlapSpec == Init /\ [][OverlapNext]_vars

\* An invocation with any setting of the API and of the languages; what
\* makeClientOptions makes of the options is kept when doAction gets to it.
SettingsCall ==
    /\ NoneRunning
    /\ \E i \in InvIds, popclip \in SettingsPopClips,
          options \in SettingsSet, action \in AllowedActions :
          /\ doAction_call(i, popclip, <<"a">>, options, action)
          /\ probe' = [NoProbe EXCEPT
                         !.called = TRUE,
                         !.options = options,
                         !.made = IF inv'[i].built
                                  THEN makeClientOptions(options)
                                  ELSE NoProbe.made]

\* The invocation is gone, and what was kept of it.
SettingsReturn ==
    /\ \E i \in InvIds : doAction_return(i)
    /\ probe' = NoProbe

SettingsNext == SettingsCall \/ Resolved \/ Rejected \/ SettingsReturn

\* The settings: every dialect tag, base URL, key and language table.
SettingsSpec == Init /\ [][SettingsNext]_vars

\* The chat action and a one-shot action, with the default settings of the
\* API.
ResponseCall ==
    /\ NoneRunning
    /\ \E i \in InvIds, popclip \in SettingsPopClips,
          action \in {"chat", "translate"} :
          doAction_call(i, popclip, <<"a">>,
                        MakeOptions("openai", OpenAIBase,
                                    [a \in AllowedOneTimeActions |-> TRUE]),
                        action)
    /\ UNCHANGED probe

\* The POST resolves with any response body, which is kept.
ResponseResolved ==
    \E i \in InvIds, resp \in ResponseBodies :
        /\ doAction_resolved(i, resp)
        /\ probe' = [NoProbe EXCEPT !.responded = TRUE, !.response = resp]

ResponseNext == ResponseCall \/ ResponseResolved \/ Rejected \/ SettingsReturn

\* The responses: every kind of response body, for both strategies.
ResponseSpec == Init /\ [][ResponseNext]_vars

\* getPrompt of the revision with custom prompts, for any action and any
\* custom prompts.
PromptInit ==
    /\ now = 0
    /\ ticks = 0
    /\ chatHistories = [a \in {} |-> NoHistory]
    /\ inv = [i \in InvIds |-> IdleInvocation]
    /\ ledger = [a \in AppIds |-> EmptyLedger]
    /\ probe \in { [NoProbe EXCEPT !.action = a, !.customPrompts = c] :
                      a \in AllowedOneTimeActions, c \in CustomPrompts }

getPrompt_call ==
    /\ ~probe.prompted
    /\ probe' = [probe EXCEPT
                   !.prompted = TRUE,
                   !.prompt = getPrompt(probe.action, probe.customPrompts)]
    /\ UNCHANGED <<now, ticks, chatHistories, inv, ledger>>

PromptNext == getPrompt_call

PromptSpec == PromptInit /\ [][PromptNext]_vars

\* ------------------------------------------------------------------- claims

UserMessage(text) == [role |-> "user", content |-> text]

AppOf(i) == inv[i].popclip.appIdentifier

ChatTurn(i) == inv[i].action = "chat" /\ inv[i].allow

\* The invocation of slot i is a chat turn whose POST was rejected.
NetworkFailure(i) ==
    /\ inv[i].pc = "done"
    /\ ChatTurn(i)
    /\ inv[i].outcome = "failed"
    /\ inv[i].error \in RequestErrors

\* A step in which doAction is called in slot i.
CalledIn(i) == inv[i].pc = "idle" /\ inv'[i].pc # "idle"

\* C1: in a conversation of successful chat turns (no clear request, no
\* expiry and no failed turn since it started), the messages a turn submits
\* are the user message and the reply of each earlier turn, in turn order,
\* and then the new user message.
C1_SubmittedIsEarlierTurnsThenNew ==
    \A i \in InvIds :
        (inv[i].pc = "awaiting" /\ ChatTurn(i)
         /\ ledger[AppOf(i)].last # "failed")
        => inv[i].submitted
             = ledger[AppOf(i)].turns \o <<UserMessage(inv[i].text)>>

\* A second turn is at its POST, its text differing from the first turn's.
C1_Witness ==
    \E i \in InvIds :
        /\ inv[i].pc = "awaiting" /\ ChatTurn(i)
        /\ ledger[AppOf(i)].last = "success"
        /\ Len(ledger[AppOf(i)].turns) = 2
        /\ ledger[AppOf(i)].turns[1].content # inv[i].text

\* Whole turns: a user message and a reply, each with its content.
RECURSIVE WholeTurns(_)
WholeTurns(messages) ==
    \/ messages = <<>>
    \/ /\ Len(messages) >= 2
       /\ messages[1].role = "user"
       /\ messages[2].role = "assistant"
       /\ messages[2].content # Undefined
       /\ WholeTurns(SubSeq(messages, 3, Len(messages)))

\* C2 as stated: after a chat turn whose POST failed, the application's
\* history holds the messages it held before that turn (taken here for the
\* histories that hold whole turns, as successful turns leave them).
C2_FailedTurnRestoresHistoryHeldBefore ==
    \A i \in InvIds :
        (NetworkFailure(i) /\ WholeTurns(inv[i].before.messages))
        => MessagesOf(chatHistories, AppOf(i)) = inv[i].before.messages

\* C2 as amended: after a chat turn whose POST failed, the application's
\* history holds the messages it held when the turn's user message was
\* appended, that is after the sweep that starts doAction: what the store
\* held before the call if the sweep kept it, and nothing if the sweep
\* deleted it.  The failed user message is not in it.
C2_FailedTurnRestoresHistoryAfterSweep ==
    \A i \in InvIds :
        NetworkFailure(i)
        => MessagesOf(chatHistories, AppOf(i))
             = IF AppOf(i) \in inv[i].swept THEN <<>>
               ELSE inv[i].before.messages

\* A turn failed on a history that held messages and had not expired.
C2_Witness ==
    \E i \in InvIds :
        /\ NetworkFailure(i)
        /\ inv[i].before.messages # <<>>
        /\ AppOf(i) \notin inv[i].swept

\* C3: by the sweep that starts doAction, every history whose last append
\* is older than the reset interval is deleted, and every history whose
\* last append is more recent is kept with its messages.  (The caller's own
\* history is then cleared or appended to by the same call.)
C3_SweepDeletesOldKeepsRecent ==
    [][\A i \in InvIds : CalledIn(i) =>
          \A a \in DOMAIN chatHistories :
             LET idleFor == now - ledger[a].appendedAt
                 own == a = inv'[i].popclip.appIdentifier
                        /\ inv'[i].action = "chat"
                 appended == IF own /\ inv'[i].allow
                             THEN <<UserMessage(inv'[i].text)>>
                             ELSE <<>>
             IN  /\ idleFor > InactiveChatHistoryResetIntervalMs
                    => IF own /\ inv'[i].allow
                       THEN MessagesOf(chatHistories', a) = appended
                       ELSE a \notin DOMAIN chatHistories'
                 /\ idleFor < InactiveChatHistoryResetIntervalMs
                    => IF own /\ ~inv'[i].allow
                       THEN a \notin DOMAIN chatHistories'
                       ELSE /\ a \in DOMAIN chatHistories'
                            /\ chatHistories'[a].messages
                                 = chatHistories[a].messages \o appended
      ]_vars

\* One call's sweep deleted the other application's history and kept the
\* caller's, which held messages.
C3_Witness ==
    \E i \in InvIds :
        /\ inv[i].pc # "idle"
        /\ inv[i].swept # {}
        /\ AppOf(i) \notin inv[i].swept
        /\ inv[i].before.messages # <<>>

\* C4: when nothing was appended to an application's history for the reset
\* interval (20 minutes), the next chat turn of that application submits
\* only its own user message.
C4_TurnAfterIdleIntervalStartsAfresh ==
    \A i \in InvIds :
        (inv[i].pc = "awaiting" /\ ChatTurn(i)
         /\ ledger[AppOf(i)].last = "expired")
        => inv[i].submitted = <<UserMessage(inv[i].text)>>

\* A turn is at its POST, the history of its application having held
\* messages that were last appended the reset interval or longer ago.
C4_Witness ==
    \E i \in InvIds :
        /\ inv[i].pc = "awaiting" /\ ChatTurn(i)
        /\ ledger[AppOf(i)].last = "expired"
        /\ inv[i].before.messages # <<>>
        /\ inv[i].at - inv[i].before.lastActiveAt
             >= InactiveChatHistoryResetIntervalMs

ClearedNotice(popclip) ==
    <<HostCall("showText", ClearedText(popclip), {}),
      HostCall("showSuccess", <<>>, {})>>

\* C5: the chat action with shift held deletes the application's history,
\* shows the confirmation text and then the success mark, and issues no
\* POST; the next chat turn of that application submits only its own user
\* message.
C5_ClearRequestDeletesHistory ==
    \A i \in InvIds :
        /\ (inv[i].pc # "idle" /\ inv[i].action = "chat"
            /\ inv[i].popclip.shift)
           => /\ inv[i].pc = "done"
              /\ inv[i].outcome = "refused"
              /\ AppOf(i) \notin DOMAIN chatHistories
              /\ inv[i].host = ClearedNotice(inv[i].popclip)
              /\ inv[i].posts = 0
              /\ ~inv[i].built
        /\ (inv[i].pc = "awaiting" /\ ChatTurn(i)
            /\ ledger[AppOf(i)].last = "cleared")
           => inv[i].submitted = <<UserMessage(inv[i].text)>>

\* A clear request has deleted a history that held messages.
C5_Witness ==
    \E i \in InvIds :
        /\ inv[i].pc = "done" /\ inv[i].action = "chat"
        /\ inv[i].popclip.shift
        /\ inv[i].before.messages # <<>>
        /\ AppOf(i) \notin inv[i].swept

\* The invocation that takes the step, when slot i changes.
Acting(i) == IF inv[i].pc = "idle" THEN inv'[i] ELSE inv[i]

\* C6: a chat turn or a clear request of one application never changes the
\* messages stored for another application, except that the sweep of a call
\* deletes the other history when nothing was appended to it for the reset
\* interval.
C6_OtherApplicationsUntouched ==
    [][\A i \in InvIds :
          (inv'[i] # inv[i] /\ Acting(i).action = "chat") =>
             \A b \in AppIds \ {Acting(i).popclip.appIdentifier} :
                \/ MessagesOf(chatHistories', b) = MessagesOf(chatHistories, b)
                \/ /\ CalledIn(i)
                   /\ b \in DOMAIN chatHistories
                   /\ b \notin DOMAIN chatHistories'
                   /\ now - ledger[b].appendedAt
                        >= InactiveChatHistoryResetIntervalMs
      ]_vars

\* A clear request of one application has run while the other application
\* holds messages.
C6_Witness ==
    \E i \in InvIds :
        \E b \in AppIds \ {AppOf(i)} :
            /\ inv[i].pc = "done" /\ inv[i].action = "chat"
            /\ inv[i].outcome = "refused"
            /\ MessagesOf(chatHistories, b) # <<>>

\* C7: a one-shot action whose enable flag is not set is refused by the
\* guard: no request is built and no POST is issued, whatever the input and
\* the modifiers.
C7_DisabledOneShotIsRefused ==
    \A i \in InvIds :
        (inv[i].pc # "idle" /\ inv[i].action \in AllowedOneTimeActions
         /\ ~inv[i].enabled)
        => /\ inv[i].pc = "done"
           /\ inv[i].outcome = "refused"
           /\ ~inv[i].allow
           /\ ~inv[i].built
           /\ inv[i].submitted = <<>>
           /\ inv[i].posts = 0

\* A disabled one-shot action was dispatched with both modifiers held.
C7_Witness ==
    \E i \in InvIds :
        /\ inv[i].pc = "done"
        /\ inv[i].action \in AllowedOneTimeActions
        /\ ~inv[i].enabled
        /\ inv[i].popclip.shift /\ inv[i].popclip.option

\* C8 as stated: the POST is issued exactly once when the guard allows the
\* request and not at all when it refuses.
C8_OnePostWheneverAllowed ==
    \A i \in InvIds :
        inv[i].pc # "idle"
        => inv[i].posts = IF inv[i].allow THEN 1 ELSE 0

\* C8 as amended: the POST is issued exactly once when the guard allows the
\* request and makeClientOptions returns, and not at all when the guard
\* refuses or makeClientOptions throws; a call that failed is not issued
\* again in the invocation.
C8_OnePostOnceClientIsBuilt ==
    \A i \in InvIds :
        inv[i].pc # "idle"
        => inv[i].posts = IF inv[i].allow /\ inv[i].outcome # "threw"
                          THEN 1 ELSE 0

\* A call failed and the invocation is over, after one POST.
C8_Witness ==
    \E i \in InvIds :
        /\ inv[i].pc = "done"
        /\ inv[i].outcome = "failed"
        /\ inv[i].error \in RequestErrors
        /\ inv[i].posts = 1

\* C9: every dispatch that fails after the guard allowed it (configuration
\* error, transport or backend error, timeout, malformed response) ends
\* with showText called with the string form of the error.
C9_EveryFailureIsShown ==
    \A i \in InvIds :
        (inv[i].pc = "done" /\ inv[i].allow
         /\ inv[i].outcome \in {"threw", "failed"})
        => /\ inv[i].host # <<>>
           /\ inv[i].host[Len(inv[i].host)]
                = HostCall("showText", String(inv[i].error), {})

\* C10: when the host cannot paste, a dispatch that has a result ends with
\* the result copied and shown as a preview, and no dispatch calls
\* pasteText, whatever the modifiers.
C10_NoPasteWithoutCanPaste ==
    \A i \in InvIds :
        (inv[i].pc # "idle" /\ ~inv[i].popclip.canPaste)
        => /\ \A k \in 1..Len(inv[i].host) : inv[i].host[k].op # "pasteText"
           /\ inv[i].outcome = "placed"
              => /\ Len(inv[i].host) = 2
                 /\ inv[i].host[1].op = "copyText"
                 /\ inv[i].host[1].text = inv[i].result
                 /\ inv[i].host[2].op = "showText"
                 /\ inv[i].host[2].text = inv[i].result
                 /\ "preview" \in inv[i].host[2].opts

\* A result was placed with the host unable to paste and no modifier held.
C10_Witness ==
    \E i \in InvIds :
        /\ inv[i].pc = "done" /\ inv[i].outcome = "placed"
        /\ ~inv[i].popclip.canPaste
        /\ ~inv[i].popclip.option /\ ~inv[i].popclip.shift
        /\ inv[i].result = <<"r">>

\* The invocation of slot i has placed its result.
Placed(i) == inv[i].pc = "done" /\ inv[i].outcome = "placed"

\* The operations of a sequence of host calls.
OpsOf(host) == { host[k].op : k \in 1..Len(host) }

\* The text sub stands somewhere in the text s.
Contains(s, sub) ==
    \E k \in 1..(Len(s) - Len(sub) + 1) :
        SubSeq(s, k, k + Len(sub) - 1) = sub

\* C11: with the option key held, a dispatch that has a result copies it
\* and shows it as a preview and never calls pasteText, even when the host
\* can paste; with the key not held and a host that can paste, the result
\* is pasted and not copied.
C11_OptionForcesPreview ==
    \A i \in InvIds :
        Placed(i)
        => /\ inv[i].popclip.option
              => /\ "pasteText" \notin OpsOf(inv[i].host)
                 /\ Len(inv[i].host) = 2
                 /\ inv[i].host[1].op = "copyText"
                 /\ inv[i].host[1].text = inv[i].result
                 /\ inv[i].host[2].op = "showText"
                 /\ inv[i].host[2].text = inv[i].result
                 /\ "preview" \in inv[i].host[2].opts
           /\ (~inv[i].popclip.option /\ inv[i].popclip.canPaste)
              => /\ "copyText" \notin OpsOf(inv[i].host)
                 /\ inv[i].host[1].op = "pasteText"
                 /\ Contains(inv[i].host[1].text, inv[i].result)

\* A result was placed with the option key held and a host that can paste.
C11_Witness ==
    \E i \in InvIds :
        /\ Placed(i)
        /\ inv[i].popclip.option
        /\ inv[i].popclip.canPaste /\ inv[i].popclip.canCopy

\* The text of the pasteText call of slot i.
PastedText(i) ==
    LET k == CHOOSE n \in 1..Len(inv[i].host) : inv[i].host[n].op = "pasteText"
    IN  inv[i].host[k].text

\* C12: when the result is pasted in iTerm2 or Terminal, or by a host that
\* can paste and cannot copy, the pasted text holds the result and not the
\* input text; in any other application, the host being able to paste and
\* to copy, the pasted text is the input text, a blank line and the result
\* (and the newline that closes it).
C12_InputPrependedOutsideTerminals ==
    \A i \in InvIds :
        (Placed(i) /\ "pasteText" \in OpsOf(inv[i].host))
        => IF \/ inv[i].popclip.appName \in {"iTerm2", "Terminal"}
              \/ ~inv[i].popclip.canCopy
           THEN /\ Contains(PastedText(i), inv[i].result)
                /\ ~Contains(PastedText(i), inv[i].text)
           ELSE PastedText(i)
                  = inv[i].text \o <<"\n", "\n">> \o inv[i].result
                    \o <<"\n">>

\* A result was pasted in iTerm2 by a host that can paste and copy.
C12_Witness ==
    \E i \in InvIds :
        /\ Placed(i)
        /\ "pasteText" \in OpsOf(inv[i].host)
        /\ inv[i].popclip.appName = "iTerm2"
        /\ inv[i].popclip.canCopy
        /\ inv[i].text # <<>> /\ inv[i].result # <<>>

\* The tokens of a text.
TokensOf(text) == { text[k] : k \in 1..Len(text) }

\* Every language the options configure, for any action.
ConfiguredLanguages(options) ==
    { options.primaryLanguage[a] : a \in AllowedOneTimeActions }
    \cup { options.secondaryLanguage[a] : a \in AllowedOneTimeActions }

\* C13: the request of a one-shot action names the action's secondary
\* language when shift is held and its primary language otherwise, and no
\* other language that the options configure.
C13_PromptLanguageFollowsShift ==
    \A i \in InvIds :
        (probe.called /\ inv[i].action \in AllowedOneTimeActions
         /\ inv[i].submitted # <<>>)
        => LET content == inv[i].submitted[1].content
               language ==
                 IF inv[i].popclip.shift
                 THEN probe.options.secondaryLanguage[inv[i].action]
                 ELSE probe.options.primaryLanguage[inv[i].action]
           IN  /\ language \in TokensOf(content)
               /\ \A l \in ConfiguredLanguages(probe.options) \ {language} :
                     l \notin TokensOf(content)

\* The polish action was dispatched with shift held, every action having
\* languages of its own.
C13_Witness ==
    \E i \in InvIds :
        /\ probe.called
        /\ inv[i].pc = "awaiting"
        /\ inv[i].action = "polish"
        /\ inv[i].popclip.shift
        /\ probe.options.secondaryLanguage = DistinctLanguages.secondary
        /\ "Japanese" \in TokensOf(inv[i].submitted[1].content)

\* makeClientOptions was called with the options kept, and returned.
ClientMade == probe.called /\ \E i \in InvIds : inv[i].built

\* C14: for the azure dialect and a base URL whose path ends in
\* /chat/completions and whose query holds api-version=V, the client
\* configuration has the base URL made of the origin and of the path
\* without that suffix, the query parameter api-version = V and the header
\* api-key holding the key as it is.
C14_AzureTrimsSuffixAndReadsVersion ==
    \A o \in Origins, p \in PathPrefixes, q \in QueryPrefixes,
       v \in ApiVersions :
        (/\ ClientMade
         /\ probe.options.apiType = "azure"
         /\ probe.options.apiBase
              = <<o>> \o p \o <<"/chat", "/completions", "?">> \o q
                \o <<"api-version", "=", v>>)
        => /\ ~probe.made.threw
           /\ probe.made.client.baseURL = <<o>> \o p
           /\ probe.made.client.params = <<"api-version", v>>
           /\ probe.made.client.headers = <<"api-key", probe.options.apiKey>>

\* The azure client was made from a deployment URL that ends in
\* /chat/completions and has another query parameter before api-version.
C14_Witness ==
    /\ ClientMade
    /\ probe.options.apiType = "azure"
    /\ probe.options.apiKey = "az-key"
    /\ probe.options.apiBase
         = <<"https://x.openai.azure.com", "/openai", "/deployments", "/d1",
             "/chat", "/completions", "?", "x", "=", "1", "&",
             "api-version", "=", "2024-02-01">>
    /\ ~probe.made.threw

\* C15 as stated: for the openai dialect the client configuration has the
\* header Authorization: Bearer <apiKey> and the base URL exactly as it
\* is configured.
C15_OpenAIBaseURLAsConfigured ==
    (ClientMade /\ probe.options.apiType = "openai" /\ ~probe.made.threw)
    => /\ probe.made.client.headers
            = <<"Authorization", "Bearer ", probe.options.apiKey>>
       /\ probe.made.client.baseURL = probe.options.apiBase

\* C15 as amended: for the openai dialect and a base URL that parses, the
\* client configuration has the header Authorization: Bearer <apiKey> and
\* a base URL made of the origin and of the path without a trailing
\* /chat/completions ("/" for a URL that has no path), the query being
\* left out; that is the configured base URL when it has a path that does
\* not end in /chat/completions and no query.
C15_OpenAIBaseURLIsOriginAndTrimmedPath ==
    \A o \in Origins, p \in PathPrefixes \cup {ChatCompletions \o <<"/v1">>},
       tail \in {<<>>, ChatCompletions}, q \in ApiQueries :
        (/\ ClientMade
         /\ probe.options.apiType = "openai"
         /\ probe.options.apiBase = <<o>> \o p \o tail \o q)
        => /\ ~probe.made.threw
           /\ probe.made.client.headers
                = <<"Authorization", "Bearer ", probe.options.apiKey>>
           /\ probe.made.client.baseURL
                = <<o>> \o (IF p = <<>> /\ tail = <<>> THEN <<"/">> ELSE p)
           /\ (p # <<>> /\ tail = <<>> /\ q = <<>>)
              => probe.made.client.baseURL = probe.options.apiBase

\* The openai client was made from a URL that has no path.
C15_Witness ==
    /\ ClientMade
    /\ probe.options.apiType = "openai"
    /\ probe.options.apiBase = <<"https://api.openai.com">>
    /\ ~probe.made.threw

\* C16 as stated: for a dialect tag other than openai and azure,
\* makeClientOptions throws the unsupported-type error and the invocation
\* issues no POST.
C16_UnknownDialectIsUnsupported ==
    \A i \in InvIds :
        (probe.called /\ inv[i].built
         /\ probe.options.apiType \notin {"openai", "azure"})
        => /\ probe.made.threw
           /\ probe.made.error.name = "Error"
           /\ probe.made.error.message
                = <<"unsupported api type: ", probe.options.apiType>>
           /\ inv[i].posts = 0

\* C16 as amended: for a dialect tag other than openai and azure,
\* makeClientOptions throws and the invocation issues no POST; the error
\* is the unsupported-type error when the base URL parses, and the error
\* of the URL parser when it does not.
C16_UnknownDialectThrowsBeforePost ==
    \A i \in InvIds :
        (probe.called /\ inv[i].built
         /\ probe.options.apiType \notin {"openai", "azure"})
        => /\ probe.made.threw
           /\ inv[i].outcome = "threw"
           /\ inv[i].posts = 0
           /\ inv[i].submitted = <<>>
           /\ IF probe.options.apiBase = NotAURL
              THEN probe.made.error.name = "TypeError"
              ELSE /\ probe.made.error.name = "Error"
                   /\ probe.made.error.message
                        = <<"unsupported api type: ",
                            probe.options.apiType>>

\* A chat turn was dispatched with the dialect tag palm and a base URL
\* that parses.
C16_Witness ==
    \E i \in InvIds :
        /\ probe.called /\ inv[i].built
        /\ inv[i].action = "chat"
        /\ probe.options.apiType = "palm"
        /\ probe.options.apiBase = OpenAIBase
        /\ inv[i].pc = "done"

FrenchLine == <<"[", "translate", "]", "Translate to French">>

\* A line names an action when, trimmed, it is one character that is not
\* a closing bracket, then the action, then a closing bracket or the end
\* of the line.
LineNames(line, action) ==
    LET t == trim(line)
    IN  /\ Len(t) >= 2
        /\ t[1] \in SingleCharacters \ {"]"}
        /\ t[2] = action
        /\ Len(t) >= 3 => t[3] = "]"

\* C17 as stated: when the custom prompts hold the line
\* [translate]Translate to French, getPrompt returns Translate to French
\* for the action translate, whatever the other lines are and wherever
\* they stand.
C17_FrenchLineAlwaysWins ==
    \A lines \in PromptLineSeqs :
        (/\ probe.prompted
         /\ probe.action = "translate"
         /\ probe.customPrompts = JoinLines(lines)
         /\ \E k \in 1..Len(lines) : lines[k] = FrenchLine)
        => probe.prompt = <<"Translate to French">>

\* C17 as amended: when the custom prompts hold the line
\* [translate]Translate to French and no line before it names translate,
\* getPrompt returns Translate to French for the action translate,
\* whatever the other lines are.
C17_FirstFrenchLineWins ==
    \A lines \in PromptLineSeqs :
        (/\ probe.prompted
         /\ probe.action = "translate"
         /\ probe.customPrompts = JoinLines(lines)
         /\ \E k \in 1..Len(lines) :
               /\ lines[k] = FrenchLine
               /\ \A j \in 1..(k - 1) : ~LineNames(lines[j], "translate"))
        => probe.prompt = <<"Translate to French">>

\* getPrompt was called for translate, the French line standing after a
\* line for another action.
C17_Witness ==
    /\ probe.prompted
    /\ probe.action = "translate"
    /\ probe.customPrompts
         = <<"[", "revise", "]", "Fix", "]", "it", "\n",
             "[", "translate", "]", "Translate to French">>
    /\ probe.prompt = <<"Translate to French">>

\* No line of the custom prompts kept names the action kept.
NoLineNamesTheAction ==
    \E lines \in PromptLineSeqs :
        /\ probe.customPrompts = JoinLines(lines)
        /\ \A k \in 1..Len(lines) : ~LineNames(lines[k], probe.action)

\* The built-in prompts, as the source spells them.
BuiltInPrompt(action) ==
    CASE action = "revise" ->
           <<"Please revise the text to make it clearer, more concise, and more coherent, and please list the changes and briefly explain why (NOTE: do not translate the content).">>
      [] action = "polish" ->
           <<"Please correct the grammar and polish the text while adhering as closely as possible to the original intent (NOTE: do not translate the content).">>
      [] action = "translate" ->
           <<"Please translate the text into Chinese and only provide me with the translated content without formating.">>

StrippedOf(content, result) ==
    /\ \E a \in 0..Len(content), b \in 0..Len(content) :
          /\ a + Len(result) + b = Len(content)
          /\ \A k \in 1..a : content[k] \in Whitespace
          /\ \A k \in (Len(content) - b + 1)..Len(content) :
                content[k] \in Whitespace
          /\ SubSeq(content, a + 1, Len(content) - b) = result
    /\ result # <<>>
       => result[1] \notin Whitespace /\ result[Len(result)] \notin Whitespace

\* C19: for the chat action and for a one-shot action, the result that the
\* output placement is given is the content of the message of the first
\* choice without the whitespace it starts and ends with (hello for a
\* content of hello between blanks), whatever the choices after the first
\* hold.
C19_ResultIsFirstContentTrimmed ==
    \A i \in InvIds :
        (Placed(i) /\ probe.responded)
        => LET content == probe.response.choices[1].message.content
           IN  /\ StrippedOf(content, inv[i].result)
               /\ content = <<" ", " ", "hello", " ", " ">>
                  => inv[i].result = <<"hello">>
               /\ inv[i].host[1].op = "pasteText"
               /\ inv[i].host[1].text
                    = inv[i].text \o <<"\n", "\n">> \o inv[i].result
                      \o <<"\n">>

\* A chat turn has placed hello, and a one-shot dispatch the first of two
\* choices.
C19_Witness ==
    \E i \in InvIds :
        /\ Placed(i) /\ probe.responded
        /\ \/ /\ inv[i].action = "chat"
              /\ probe.response.choices[1].message.content
                   = <<" ", " ", "hello", " ", " ">>
              /\ inv[i].result = <<"hello">>
           \/ /\ inv[i].action = "translate"
              /\ Len(probe.response.choices) = 2
              /\ inv[i].result = <<"r">>

\* C20: after a chat turn whose response arrived and was not well formed,
\* so that processResponse threw, the application's history holds the
\* messages it held before the turn: neither the user message nor the
\* reply of the turn.
C20_MalformedResponseRestoresHistory ==
    \A i \in InvIds :
        (/\ inv[i].pc = "done" /\ ChatTurn(i)
         /\ inv[i].outcome = "failed"
         /\ probe.responded)
        => MessagesOf(chatHistories, AppOf(i)) = inv[i].before.messages

\* C21: a chat invocation that ends because makeClientOptions threw
\* (unsupported dialect tag, or a base URL that does not parse) leaves the
\* application's history holding the messages it held before the
\* invocation.
C21_ConfigurationErrorRestoresHistory ==
    \A i \in InvIds :
        (inv[i].pc = "done" /\ ChatTurn(i) /\ inv[i].outcome = "threw")
        => MessagesOf(chatHistories, AppOf(i)) = inv[i].before.messages

\* The text s ends with the text t.
EndsWith(s, t) ==
    /\ Len(s) >= Len(t)
    /\ SubSeq(s, Len(s) - Len(t) + 1, Len(s)) = t

\* The text s starts with the text t.
StartsWith(s, t) == Len(s) >= Len(t) /\ SubSeq(s, 1, Len(t)) = t

\* C22 as stated: whenever text is pasted, with or without the input text,
\* the pasted text begins with a blank line and ends with a newline.
C22_PastedTextBeginsWithBlankLine ==
    \A i \in InvIds :
        (Placed(i) /\ "pasteText" \in OpsOf(inv[i].host))
        => /\ StartsWith(PastedText(i), <<"\n", "\n">>)
           /\ EndsWith(PastedText(i), <<"\n">>)

\* C22 as amended: whenever text is pasted, the pasted text ends with a
\* blank line, the result and a newline; it begins with that blank line
\* when the result is pasted alone, and with the input text when the input
\* is pasted with it.
C22_ResultFollowsBlankLine ==
    \A i \in InvIds :
        (Placed(i) /\ "pasteText" \in OpsOf(inv[i].host))
        => /\ EndsWith(PastedText(i),
                       <<"\n", "\n">> \o inv[i].result \o <<"\n">>)
           /\ IF \/ inv[i].popclip.appName \in {"iTerm2", "Terminal"}
                 \/ ~inv[i].popclip.canCopy
              THEN StartsWith(PastedText(i), <<"\n", "\n">>)
              ELSE /\ StartsWith(PastedText(i), inv[i].text)
                   /\ ~StartsWith(PastedText(i), <<"\n", "\n">>)

\* The input and the result were pasted in TextEdit.
C22_Witness ==
    \E i \in InvIds :
        /\ Placed(i)
        /\ "pasteText" \in OpsOf(inv[i].host)
        /\ inv[i].popclip.appName = "TextEdit"
        /\ inv[i].popclip.canCopy
        /\ StartsWith(PastedText(i), inv[i].text)

\* C23 as stated: a dispatch that has placed its result, by pasting or by
\* copying and previewing, ends with showSuccess, and a dispatch whose call
\* failed calls showFailure.
C23_StatusAlwaysReported ==
    \A i \in InvIds :
        /\ Placed(i)
           => inv[i].host[Len(inv[i].host)].op = "showSuccess"
        /\ (inv[i].pc = "done" /\ inv[i].outcome = "failed")
           => "showFailure" \in OpsOf(inv[i].host)

\* C23 as amended: a dispatch that has pasted its result ends with
\* showSuccess; a dispatch that has copied and previewed it calls copyText
\* with the notification and showText, and no showSuccess; a dispatch
\* whose call failed calls showText with the error and nothing else:
\* showFailure is never called.
C23_StatusReportedAfterPasteOnly ==
    \A i \in InvIds :
        /\ "showFailure" \notin OpsOf(inv[i].host)
        /\ (Placed(i) /\ "pasteText" \in OpsOf(inv[i].host))
           => /\ Len(inv[i].host) = 2
              /\ inv[i].host[2].op = "showSuccess"
        /\ (Placed(i) /\ "pasteText" \notin OpsOf(inv[i].host))
           => /\ OpsOf(inv[i].host) = {"copyText", "showText"}
              /\ "notify" \in inv[i].host[1].opts
        /\ (inv[i].pc = "done" /\ inv[i].outcome = "failed")
           => /\ Len(inv[i].host) = 1
              /\ inv[i].host[1].op = "showText"
              /\ inv[i].host[1].text = <<inv[i].error.name, ": ">>
                                        \o inv[i].error.message

\* The call of a one-shot dispatch failed and the error was shown.
C23_Witness ==
    \E i \in InvIds :
        /\ inv[i].pc = "done" /\ inv[i].outcome = "failed"
        /\ inv[i].action = "summarize"
        /\ inv[i].error \in RequestErrors
        /\ inv[i].host # <<>>

\* How long the history of an application has been idle: the time since
\* its last append (or its creation).
IdleFor(a) == now - chatHistories[a].lastActiveAt

\* C24: every call of doAction, for the chat action and for the one-shot
\* actions, whether the guard then allows or refuses, sweeps before the
\* guard is asked: no history that has been idle for the reset interval or
\* longer is in the map the guard sees.  (Such a key can only be in the map
\* after the call as the new history of the chat turn of the call.)
C24_SweepComesBeforeTheGuard ==
    [][\A i \in InvIds : CalledIn(i) =>
          \A a \in DOMAIN chatHistories :
             IdleFor(a) >= InactiveChatHistoryResetIntervalMs
             => /\ a \in inv'[i].swept
                /\ a \in DOMAIN chatHistories'
                   => /\ inv'[i].action = "chat" /\ inv'[i].allow
                      /\ a = inv'[i].popclip.appIdentifier
                      /\ chatHistories'[a].messages
                           = <<UserMessage(inv'[i].text)>>
      ]_vars

\* A one-shot dispatch that the guard refused has swept a history.
C24_Witness ==
    \E i \in InvIds :
        /\ inv[i].pc = "done"
        /\ inv[i].action \in AllowedOneTimeActions
        /\ inv[i].outcome = "refused"
        /\ inv[i].swept # {}

\* C25 as stated: the sweep deletes the histories that have been idle for
\* longer than the reset interval and no other: a history idle for the
\* interval exactly is kept.
C25_SweepDeletesIdleLongerThanInterval ==
    [][\A i \in InvIds : CalledIn(i) =>
          \A a \in DOMAIN chatHistories :
             a \in inv'[i].swept
             <=> IdleFor(a) > InactiveChatHistoryResetIntervalMs
      ]_vars

\* C25 as amended: the sweep deletes the histories that have been idle for
\* the reset interval or longer and no other: a history idle for the
\* interval exactly is deleted.
C25_SweepDeletesIdleForInterval ==
    [][\A i \in InvIds : CalledIn(i) =>
          \A a \in DOMAIN chatHistories :
             a \in inv'[i].swept
             <=> IdleFor(a) >= InactiveChatHistoryResetIntervalMs
      ]_vars

\* A call came when the history of its application, which held messages,
\* had been idle for the reset interval exactly.
C25_Witness ==
    \E i \in InvIds :
        /\ inv[i].pc # "idle"
        /\ inv[i].before.present
        /\ inv[i].before.messages # <<>>
        /\ inv[i].at - inv[i].before.lastActiveAt
             = InactiveChatHistoryResetIntervalMs
        /\ AppOf(i) \in inv[i].swept

\* C26: no step of a one-shot dispatch, with or without shift, whether the
\* call succeeds or fails, changes the chat histories, but for the sweep
\* of its call, which leaves the histories it keeps as they are; the
\* request submitted holds one message, whose role is user.
C26_OneShotLeavesHistoriesAlone ==
    [][\A i \in InvIds :
          (inv'[i] # inv[i] /\ Acting(i).action \in AllowedOneTimeActions)
          => /\ IF CalledIn(i)
                THEN chatHistories'
                       = [a \in (DOMAIN chatHistories) \ inv'[i].swept
                            |-> chatHistories[a]]
                ELSE chatHistories' = chatHistories
             /\ inv'[i].pc = "awaiting"
                => /\ Len(inv'[i].submitted) = 1
                   /\ inv'[i].submitted[1].role = "user"
      ]_vars

\* The call of a one-shot dispatch with shift held failed, the history of
\* its application holding messages.
C26_Witness ==
    \E i \in InvIds :
        /\ inv[i].pc = "done"
        /\ inv[i].action \in AllowedOneTimeActions
        /\ inv[i].popclip.shift
        /\ inv[i].outcome = "failed"
        /\ MessagesOf(chatHistories, AppOf(i)) # <<>>

\* The prompt of a one-shot dispatch with the default languages.
ResolvedPrompt(i) ==
    OneTimeAction_getPrompt(inv[i].action,
        IF inv[i].popclip.shift
        THEN DefaultLanguages.secondary[inv[i].action]
        ELSE DefaultLanguages.primary[inv[i].action])

IntroductionSentence ==
    "The input text being used for this task is enclosed within triple quotation marks below the next line:"

\* The input text between triple quotation marks, as it was handed in.
QuotedInput(i) == <<"\"\"\"">> \o inv[i].text \o <<"\"\"\"">>

\* C27 as stated: the content of the message of a one-shot request is the
\* prompt, two newlines, the sentence that introduces the input, two
\* newlines, and the input text between triple quotation marks.
C27_TwoNewlinesAfterThePrompt ==
    \A i \in InvIds :
        (inv[i].action \in AllowedOneTimeActions /\ inv[i].submitted # <<>>)
        => inv[i].submitted[1].content
             = ResolvedPrompt(i) \o <<"\n", "\n", IntroductionSentence,
                                      "\n", "\n">> \o QuotedInput(i)

\* C27 as amended: the content of the message of a one-shot request is the
\* prompt, one newline, the sentence that introduces the input, two
\* newlines, and the input text between triple quotation marks, as it was
\* handed in.
C27_OneNewlineAfterThePrompt ==
    \A i \in InvIds :
        (inv[i].action \in AllowedOneTimeActions /\ inv[i].submitted # <<>>)
        => inv[i].submitted[1].content
             = ResolvedPrompt(i) \o <<"\n", IntroductionSentence,
                                      "\n", "\n">> \o QuotedInput(i)

\* A one-shot request was built from a text that starts and ends with
\* whitespace and holds a triple quotation mark.
C27_Witness ==
    \E i \in InvIds :
        /\ inv[i].pc = "awaiting"
        /\ inv[i].action = "revise"
        /\ inv[i].text = <<" ", "a", "\n", "\"\"\"", " ">>
        /\ inv[i].submitted # <<>>

\* C28: for chat, revise, polish, translate and summarize alike, the
\* strategy that doAction finds for the action returns a request and never
\* null: for chat a request that ends with the new user message, for a
\* one-shot action the one message of its template.
C28_RegisteredStrategyBuildsARequest ==
    \A i \in InvIds :
        inv[i].built
        => /\ ~inv[i].requestIsNull
           /\ inv[i].pc = "awaiting"
              => /\ inv[i].submitted # <<>>
                 /\ IF inv[i].action = "chat"
                    THEN inv[i].submitted[Len(inv[i].submitted)]
                           = UserMessage(inv[i].text)
                    ELSE /\ Len(inv[i].submitted) = 1
                         /\ IntroductionSentence
                              \in TokensOf(inv[i].submitted[1].content)

\* The request of the summarize action is at its POST.
C28_Witness ==
    \E i \in InvIds :
        /\ inv[i].pc = "awaiting"
        /\ inv[i].built
        /\ inv[i].action = "summarize"
        /\ inv[i].submitted # <<>>

\* A line has the form [action]text when, trimmed, it is an opening
\* bracket, the action and a closing bracket, and then the text.
LineHasBracketForm(line, action) ==
    LET t == trim(line)
    IN  /\ Len(t) >= 3
        /\ t[1] = "["
        /\ t[2] = action
        /\ t[3] = "]"

\* What getPrompt returns when no line stands for the action.
FallbackPrompt(action) ==
    IF action = "summarize" THEN Undefined ELSE BuiltInPrompt(action)

\* What stands in a line after the action and the closing bracket.
TextOfLine(line) ==
    LET t == trim(line) IN SubSeq(t, 4, Len(t))

\* C29 as stated: the first line of the custom prompts that has the form
\* [action]text gives the prompt, which is all that stands after its
\* first closing bracket, later closing brackets included; no other line
\* stands for the action.
C29_OnlyBracketFormMatches ==
    \A lines \in PromptLineSeqs :
        (probe.prompted /\ probe.customPrompts = JoinLines(lines))
        => LET matching == { k \in 1..Len(lines) :
                               LineHasBracketForm(lines[k], probe.action) }
           IN  IF matching = {}
               THEN probe.prompt = FallbackPrompt(probe.action)
               ELSE LET first == CHOOSE k \in matching :
                                    \A m \in matching : k <= m
                    IN  probe.prompt = TextOfLine(lines[first])

\* C29 as amended: a line stands for the action when, trimmed, what is
\* between its first character, whatever it is, and its first closing
\* bracket (or its end, when it has none) is the action; the first such
\* line gives the prompt, which is all that stands after that closing
\* bracket, later closing brackets included, and the empty text when the
\* line has no closing bracket.
C29_FirstCharacterIsDropped ==
    \A lines \in PromptLineSeqs :
        (probe.prompted /\ probe.customPrompts = JoinLines(lines))
        => LET matching == { k \in 1..Len(lines) :
                               LineNames(lines[k], probe.action) }
           IN  IF matching = {}
               THEN probe.prompt = FallbackPrompt(probe.action)
               ELSE LET first == CHOOSE k \in matching :
                                    \A m \in matching : k <= m
                    IN  probe.prompt = TextOfLine(lines[first])

\* getPrompt has returned a text with a closing bracket in it, from the
\* second line.
C29_Witness ==
    /\ probe.prompted
    /\ probe.action = "revise"
    /\ probe.customPrompts
         = <<"x", "translate", "]", "Junk", "\n",
             "[", "revise", "]", "Fix", "]", "it">>
    /\ probe.prompt = <<"Fix", "]", "it">>

\* The base URL kept has no api-version in its query.
NoVersionInURL ==
    \E o \in Origins, p \in ApiPaths, q \in {<<>>, <<"?", "x", "=", "1">>} :
        probe.options.apiBase = <<o>> \o p \o q

\* The base URL kept has api-version = v in its query.
VersionInURL(v) ==
    \E o \in Origins, p \in ApiPaths, q \in QueryPrefixes :
        probe.options.apiBase
          = <<o>> \o p \o <<"?">> \o q \o <<"api-version", "=", v>>

\* C30 as stated: for the azure dialect, the api-version parameter of the
\* client is the apiVersion of the options when the base URL has no
\* api-version in its query, and the version of the URL when it has one.
C30_VersionFallsBackToOptions ==
    (ClientMade /\ probe.options.apiType = "azure" /\ ~probe.made.threw)
    => /\ NoVersionInURL
          => probe.made.client.params
               = <<"api-version", probe.options.apiVersion>>
       /\ \A v \in ApiVersions :
             VersionInURL(v)
             => probe.made.client.params = <<"api-version", v>>

\* C30 as amended: for the azure dialect, the api-version parameter of the
\* client is the version of the base URL's query when it has one, and null
\* when it has none; the apiVersion of the options is not read.
C30_VersionComesFromURLOnly ==
    (ClientMade /\ probe.options.apiType = "azure" /\ ~probe.made.threw)
    => /\ NoVersionInURL
          => probe.made.client.params = <<"api-version", Null>>
       /\ \A v \in ApiVersions :
             VersionInURL(v)
             => probe.made.client.params = <<"api-version", v>>
       /\ probe.made.client.params
            # <<"api-version", probe.options.apiVersion>>

\* The azure client was made from a deployment URL without a query.
C30_Witness ==
    /\ ClientMade
    /\ probe.options.apiType = "azure"
    /\ probe.options.apiBase
         = <<"https://x.openai.azure.com", "/openai", "/deployments", "/d1">>
    /\ ~probe.made.threw
    /\ probe.made.client.params = <<"api-version", Null>>

\* No invocation is at the await of its POST.
BetweenInvocations == \A i \in InvIds : inv[i].pc # "awaiting"

\* The roles of the messages are user, assistant, user, assistant, ...
Alternates(messages) ==
    /\ Len(messages) % 2 = 0
    /\ \A k \in 1..Len(messages) :
          messages[k].role = IF k % 2 = 1 THEN "user" ELSE "assistant"

\* C31: with one invocation after another and replies of role assistant,
\* whatever chat turns (ended well or failed, in whichever way), clear
\* requests and sweeps there were, every history that is stored while no
\* invocation is running has an even number of messages, of roles user,
\* assistant, user, assistant, ...
C31_StoredHistoriesAlternate ==
    BetweenInvocations
    => \A a \in DOMAIN chatHistories : Alternates(chatHistories[a].messages)

\* A chat turn of slot i has ended without a result.
FailedTurn(i) ==
    /\ inv[i].pc = "done"
    /\ ChatTurn(i)
    /\ inv[i].outcome \in {"failed", "threw"}

\* The history of the turn's application was there when doAction was
\* called and its doCleanup kept it.
HistoryKept(i) == inv[i].before.present /\ AppOf(i) \notin inv[i].swept

\* C32 as stated: after a failed chat turn, the time of the last activity
\* of the history is what it was before the turn.
C32_FailedTurnKeepsLastActiveAt ==
    \A i \in InvIds :
        (FailedTurn(i) /\ HistoryKept(i))
        => /\ AppOf(i) \in DOMAIN chatHistories
           /\ chatHistories[AppOf(i)].lastActiveAt
                = inv[i].before.lastActiveAt

\* C32 as amended: after a failed chat turn, the time of the last activity
\* of the history is the time of the turn's last push: never before the
\* time doAction was called, and that very time when the POST was rejected
\* or makeClientOptions threw.  The failed turn postpones the expiry.
C32_FailedTurnRefreshesLastActiveAt ==
    \A i \in InvIds :
        FailedTurn(i)
        => /\ AppOf(i) \in DOMAIN chatHistories
           /\ chatHistories[AppOf(i)].lastActiveAt >= inv[i].at
           /\ (inv[i].outcome = "threw" \/ inv[i].error \in RequestErrors)
              => chatHistories[AppOf(i)].lastActiveAt = inv[i].at

\* A turn on a history last active earlier has failed at its POST, and the
\* history is as active as the turn.
C32_Witness ==
    \E i \in InvIds :
        /\ NetworkFailure(i)
        /\ HistoryKept(i)
        /\ inv[i].before.lastActiveAt < inv[i].at
        /\ chatHistories[AppOf(i)].lastActiveAt = inv[i].at

\* A chat turn of slot i has ended with its POST rejected.
RejectedTurn(i) ==
    /\ inv[i].pc = "done"
    /\ ChatTurn(i)
    /\ inv[i].outcome = "failed"
    /\ inv[i].error \in RequestErrors

\* A chat turn of slot i has ended with its result placed.
SucceededTurn(i) ==
    /\ inv[i].pc = "done"
    /\ ChatTurn(i)
    /\ inv[i].outcome = "placed"

\* C33: two chat turns of one application, with different texts, that began
\* on an empty history and overlapped (the second was called while the
\* first was at its await) have both ended, one of them with its POST
\* rejected and the other with its result placed or its POST rejected
\* too: the history holds no user message of a rejected turn.
C33_OverlappingFailureRemovesOwnMessage ==
    \A i, j \in InvIds :
        (/\ i # j
         /\ RejectedTurn(i)
         /\ RejectedTurn(j) \/ SucceededTurn(j)
         /\ AppOf(i) = AppOf(j)
         /\ inv[i].text # inv[j].text
         /\ inv[i].before.messages = <<>> \/ inv[j].before.messages = <<>>)
        => \A k \in 1..Len(MessagesOf(chatHistories, AppOf(i))) :
              MessagesOf(chatHistories, AppOf(i))[k]
                # UserMessage(inv[i].text)

\* C34: a clear request of an application was made while a chat turn of
\* the same application was at its await, and both have ended: the
\* application's history holds no message, neither the user message nor
\* the reply of that turn.
C34_ClearDuringAwaitLeavesNothing ==
    \A c, j \in InvIds :
        (/\ c # j
         /\ inv[c].pc = "done"
         /\ inv[c].action = "chat"
         /\ inv[c].outcome = "refused"
         /\ inv[j].pc = "done"
         /\ ChatTurn(j)
         /\ AppOf(c) = AppOf(j))
        => MessagesOf(chatHistories, AppOf(j)) = <<>>

\* How an invocation that has ended shows to the host.  The gate refused:
\* no POST, and nothing but the notice of the gate.
GateRefusal(i) ==
    /\ ~inv[i].allow
    /\ inv[i].posts = 0
    /\ OpsOf(inv[i].host) \subseteq {"showText", "showSuccess"}

\* The result was placed: pasted, or copied and previewed.
ResultPlaced(i) ==
    /\ inv[i].allow
    /\ inv[i].posts = 1
    /\ \/ "pasteText" \in OpsOf(inv[i].host)
       \/ {"copyText", "showText"} \subseteq OpsOf(inv[i].host)

\* The failure notice was shown: the error, as a text, and nothing else.
FailureShown(i) ==
    /\ inv[i].allow
    /\ inv[i].posts = 1
    /\ inv[i].error # NoError
    /\ inv[i].host = <<HostCall("showText", String(inv[i].error), {})>>

\* The configuration error was raised: no POST and no call of the host.
ConfigurationErrorRaised(i) ==
    /\ inv[i].allow
    /\ inv[i].posts = 0
    /\ inv[i].error # NoError
    /\ inv[i].host = <<>>

OutcomesOf(i) ==
    { o \in {"refusal", "placed", "failure", "configuration"} :
        \/ o = "refusal" /\ GateRefusal(i)
        \/ o = "placed" /\ ResultPlaced(i)
        \/ o = "failure" /\ FailureShown(i)
        \/ o = "configuration" /\ ConfigurationErrorRaised(i) }

\* C35: with a POST that resolves, is rejected or times out, every
\* invocation of doAction that is at its await comes to its end, and an
\* invocation at its end has exactly one of the outcomes: the gate
\* refused, the result was placed, the failure notice was shown, or the
\* configuration error was raised.
C35_EveryDispatchEndsInOneOutcome ==
    /\ [](\A i \in InvIds :
            inv[i].pc = "done" => Cardinality(OutcomesOf(i)) = 1)
    /\ \A i \in InvIds :
          (inv[i].pc = "awaiting")
            ~> (inv[i].pc = "done" /\ Cardinality(OutcomesOf(i)) = 1)

\* An invocation has ended at the timeout of its POST, with the notice.
C35_Witness ==
    \E i \in InvIds :
        /\ inv[i].pc = "done"
        /\ inv[i].error
             = [name |-> "AxiosError",
                message |-> <<"timeout of ", "35000", "ms exceeded">>]
        /\ OutcomesOf(i) = {"failure"}

====
